---- MODULE Spec2Model ----
(***************************************************************************)
(* aetoms: the PDB formatter (models.pdb), the structure model             *)
(* (models.Model), the style table (styles.AtomStyle and its subclasses)   *)
(* and the viewer (viewer.Viewer), as state machines.                      *)
(*                                                                         *)
(* Python values are encoded as follows.                                   *)
(*   None / a value x     : <<>> / <<x>>                                   *)
(*   dict                 : the sequence of its <<key, value>> pairs in    *)
(*                          insertion order (Python keeps that order)      *)
(*   list                 : a sequence                                     *)
(*   float literal 0.1    : the string "0.1"                               *)
(*   an exception         : the name of its class in the variable err      *)
(***************************************************************************)
EXTENDS Integers, Sequences, FiniteSets, TLC

VARIABLES
    pdb_args,     \* models.py: the arguments of the pdb() call
    pdb_out,      \* None, or the string pdb() returned
    pdb_err,      \* "not called", "ok", or the exception pdb() raised
    style,        \* styles.py: the AtomStyle object under test
    last_sel,     \* the selection argument of the latest AtomStyle.apply
    calls,        \* the setStyle calls the latest AtomStyle.apply issued
    applies,      \* number of AtomStyle.apply calls so far
    atom_styles,  \* models.py: the registry, name -> style_specs of its object
    models,       \* the Model objects: object id -> its fields
    v_models,     \* Viewer.models: the list of held Model objects
    active_model, \* Viewer._active_model: None or an index
    view,         \* Viewer.view: None or a py3Dmol view
    views,        \* the py3Dmol views created so far, view id -> content
    err,          \* "ok", or the exception the latest call raised
    last_call     \* the latest call: <<operation, object, index, style>>

styleVars == <<style, last_sel, calls, applies>>

pdbVars == <<pdb_args, pdb_out, pdb_err>>

viewVars ==
    <<atom_styles, models, v_models, active_model, view, views, err,
      last_call>>

vars ==
    <<pdb_args, pdb_out, pdb_err, style, last_sel, calls, applies,
      atom_styles, models, v_models, active_model, view, views, err,
      last_call>>

None == <<>>
Some(x) == <<x>>

-----------------------------------------------------------------------------
(* Python dict operations on the pair-sequence encoding.                   *)

EmptyDict == <<>>

DictHas(d, k) == \E i \in 1..Len(d) : d[i][1] = k

DictGet(d, k) == d[CHOOSE i \in 1..Len(d) : d[i][1] = k][2]

\* d[k] = v : an existing key keeps its position, a new key is appended
DictSet(d, k, v) ==
    IF DictHas(d, k)
    THEN [i \in 1..Len(d) |-> IF d[i][1] = k THEN <<k, v>> ELSE d[i]]
    ELSE Append(d, <<k, v>>)

\* d.update(e), also the {**d, **e} of a dict display
RECURSIVE DictUpdate(_, _)
DictUpdate(d, e) ==
    IF e = <<>> THEN d
    ELSE DictUpdate(DictSet(d, Head(e)[1], Head(e)[2]), Tail(e))

-----------------------------------------------------------------------------
(* Python str.format on the character-sequence encoding of strings.  A     *)
(* float is given as an integer count of 10^-prec units, so that the       *)
(* rounding of {:w.precf} has already happened.                            *)

DigitChars == <<"0", "1", "2", "3", "4", "5", "6", "7", "8", "9">>

RECURSIVE Digits(_)
Digits(n) ==
    IF n < 10 THEN <<DigitChars[n + 1]>>
    ELSE Digits(n \div 10) \o <<DigitChars[(n % 10) + 1]>>

RECURSIVE PadLeft(_, _)
PadLeft(s, w) == IF Len(s) >= w THEN s ELSE PadLeft(<<" ">> \o s, w)

RECURSIVE PadRight(_, _)
PadRight(s, w) == IF Len(s) >= w THEN s ELSE PadRight(s \o <<" ">>, w)

RECURSIVE ZeroFill(_, _)
ZeroFill(s, w) == IF Len(s) >= w THEN s ELSE ZeroFill(<<"0">> \o s, w)

RECURSIVE Pow10(_)
Pow10(p) == IF p = 0 THEN 1 ELSE 10 * Pow10(p - 1)

\* "{:d}" and "{:wd}"
FormatD(n, w) ==
    PadLeft((IF n < 0 THEN <<"-">> ELSE <<>>)
            \o Digits(IF n < 0 THEN -n ELSE n), w)

\* "{:w.precf}" of the number units / 10^prec
FormatF(units, w, prec) ==
    LET a == IF units < 0 THEN -units ELSE units
    IN PadLeft((IF units < 0 THEN <<"-">> ELSE <<>>)
               \o Digits(a \div Pow10(prec)) \o <<".">>
               \o ZeroFill(Digits(a % Pow10(prec)), prec), w)

\* "{:ws}"
FormatS(s, w) == PadRight(s, w)

-----------------------------------------------------------------------------
(* models.py: pdb()                                                        *)

\* counting from 1, which enumerate() does not do
EnumerateFrom1(k) == k

\* the index enumerate() gives the k-th element of a list (k from 1)
EnumerateIndex(k) == k - 1

\* models.py:46-47 and 51, the header: cell lengths in 10^-3, angles in 10^-2
PdbHeader(cell, model) ==
    <<"C", "R", "Y", "S", "T", "1", " ">>
    \o FormatF(cell[1], 8, 3) \o <<" ">> \o FormatF(cell[2], 8, 3) \o <<" ">>
    \o FormatF(cell[3], 8, 3) \o <<" ">>
    \o FormatF(cell[4], 6, 2) \o <<" ">> \o FormatF(cell[5], 6, 2) \o <<" ">>
    \o FormatF(cell[6], 6, 2) \o <<" ", "P", " ", "1", "\n">>
    \o <<"M", "O", "D", "E", "L", " ", " ", " ", " ", " ">>
    \o FormatD(model, 0) \o <<"\n">>

\* models.py:48-49 and 53, one atom record: coordinates in 10^-3
PdbAtom(i, type, coo) ==
    <<"A", "T", "O", "M", " ">> \o FormatD(i, 6) \o <<" ", " ", " ">>
    \o FormatS(type, 2)
    \o <<" ", "M", "O", "L", " ", " ", " ", " ", " ", "1",
         " ", " ", " ", " ", " ">>
    \o FormatF(coo[1], 7, 3) \o <<" ">> \o FormatF(coo[2], 7, 3) \o <<" ">>
    \o FormatF(coo[3], 7, 3) \o <<" ">> \o FormatF(0, 5, 2)
    \o <<" ", " ", "0", ".", "0", "0",
         " ", " ", " ", " ", " ", " ", " ", " ", " ", " ">>
    \o FormatS(type, 2) \o <<"\n">>

\* models.py:52-53: types[i] raises IndexError when types is too short, and
\* the string built so far is lost with the exception.
RECURSIVE PdbAtoms(_, _, _, _)
PdbAtoms(coords, types, k, out) ==
    IF k > Len(coords) THEN [err |-> "ok", out |-> out]
    ELSE IF EnumerateIndex(k) >= Len(types)
         THEN [err |-> "IndexError", out |-> <<>>]
         ELSE PdbAtoms(coords, types, k + 1,
                       out \o PdbAtom(EnumerateIndex(k),
                                      types[EnumerateIndex(k) + 1], coords[k]))

\* pdb(coords, types, a, b, c, alpha, beta, gamma, model)
pdb(coords, types, cell, model) ==
    LET r == PdbAtoms(coords, types, 1, PdbHeader(cell, model))
    IN IF r.err = "ok"
       THEN [err |-> "ok",
             out |-> Some(r.out \o <<"E", "N", "D", "M", "O", "L", "\n">>)]
       ELSE [err |-> r.err, out |-> None]

-----------------------------------------------------------------------------
(* styles.py                                                               *)

CPK == <<
    <<"H", "white">>, <<"C", "black">>, <<"N", "blue">>, <<"O", "red">>,
    <<"F", "green">>, <<"Cl", "green">>, <<"Br", "0x8b0000">>,
    <<"I", "0x9400d3">>, <<"He", "cyan">>, <<"Ne", "cyan">>,
    <<"Ar", "cyan">>, <<"Ce", "cyan">>, <<"Kr", "cyan">>,
    <<"P", "orange">>, <<"S", "yellow">>, <<"B", "0xffa07a">>,
    <<"Li", "violet">>, <<"Na", "violet">>, <<"K", "violet">>,
    <<"Rb", "violet">>, <<"Cs", "violet">>, <<"Fr", "violet">>,
    <<"Be", "0x2e8b57">>, <<"Mg", "0x2e8b57">>, <<"Ca", "0x2e8b57">>,
    <<"Sr", "0x2e8b57">>, <<"Ba", "0x2e8b57">>, <<"Ra", "0x2e8b57">>,
    <<"Ti", "0x808080">>, <<"Fe", "0xff8c00">>, <<"default", "0xda70d6">> >>

DEFAULT_COLORS ==
    DictUpdate(CPK, <<
        <<"Li", "0x32cd32">>, <<"Sc", "0x6b8e23">>, <<"Ti", "0x48d1cc">>,
        <<"V", "0xC71585">>, <<"Cr", "0x87cefa">>, <<"Mn", "0x8b008b">>,
        <<"Co", "0x00008b">>, <<"Ni", "blue">>, <<"Cu", "0x8b0000">>,
        <<"Zn", "0xadd8e6">>, <<"Pt", "cyan">>, <<"Ir", "violet">> >>)

\* AtomStyle.__init__(style, colors, **style_specs)
AtomStyle(st, colors, style_specs) ==
    [styles |-> <<st>>, colors |-> colors, style_specs |-> <<style_specs>>]

\* AtomStyle.add_style(style, **style_specs)
add_style(obj, st, style_specs) ==
    [obj EXCEPT !.styles = Append(@, st),
                !.style_specs = Append(@, style_specs)]

\* The colors keyword of a subclass constructor: kwargs is {} or
\* {'colors': table}; AtomStyle.__init__ takes colors out of it.
KwColors(kwargs) ==
    IF DictHas(kwargs, "colors") THEN DictGet(kwargs, "colors")
    ELSE DEFAULT_COLORS

\* StickStyle(bond_radius=0.1, **kwargs)
StickStyle(kwargs) ==
    AtomStyle("stick", KwColors(kwargs), << <<"radius", "0.1">> >>)

\* VanDerWaalsStyle(sphere_scale=1.0, **kwargs)
VanDerWaalsStyle(kwargs) ==
    AtomStyle("sphere", KwColors(kwargs), << <<"scale", "1.0">> >>)

\* BallAndStickStyle(sphere_scale=0.4, bond_radius=0.1, **kwargs): kwargs is
\* passed to add_style too, where it lands in the stick's style_specs.
BallAndStickStyle(kwargs) ==
    add_style(AtomStyle("sphere", KwColors(kwargs), << <<"scale", "0.4">> >>),
              "stick", DictUpdate(<< <<"radius", "0.1">> >>, kwargs))

\* styles.py:109-113. style_dict[style] = self.style_specs[i] binds the
\* name to the spec object itself: ref maps a style name to the index of
\* the spec it aliases, specs is the list of spec objects.
RECURSIVE StyleDictLoop(_, _, _, _, _)
StyleDictLoop(obj, default_color, i, specs, ref) ==
    IF i > Len(obj.styles) THEN [specs |-> specs, ref |-> ref]
    ELSE StyleDictLoop(
            obj, default_color, i + 1,
            IF default_color # None
            THEN [specs EXCEPT ![i] = DictSet(@, "color", default_color[1])]
            ELSE specs,
            DictSet(ref, obj.styles[i], i))

\* What setStyle receives for a style dict: its value at the time of the call
StyleDictValue(ref, specs) ==
    [k \in 1..Len(ref) |-> <<ref[k][1], specs[ref[k][2]]>>]

\* styles.py:122-124. species_dict = style_dict.copy() is a shallow copy, so
\* the update writes into the spec objects that style_dict aliases.
SpeciesUpdate(ref, specs, color) ==
    [i \in 1..Len(specs) |->
        IF \E k \in 1..Len(ref) : ref[k][2] = i
        THEN DictSet(specs[i], "color", color)
        ELSE specs[i]]

\* a loop that would not skip the 'default' entry
IsSpeciesAll(entry) == TRUE

\* styles.py:120-121: the species the loop visits, in the table's order
IsSpecies(entry) == entry[1] # "default"

Species(colors) == SelectSeq(colors, IsSpecies)

\* styles.py:120-126.  Every pass overwrites the one key 'color' of the same
\* spec objects, so what the k-th pass leaves is SpeciesUpdate of the specs
\* the loop started with: the calls and the final specs are given directly.
SpeciesCalls(colors, specs, ref, sel) ==
    [k \in 1..Len(Species(colors)) |->
        <<DictUpdate(<< <<"elem", Species(colors)[k][1]>> >>, sel),
          StyleDictValue(ref, SpeciesUpdate(ref, specs,
                                            Species(colors)[k][2]))>>]

SpeciesSpecs(colors, specs, ref) ==
    IF Species(colors) = <<>> THEN specs
    ELSE SpeciesUpdate(ref, specs,
                       Species(colors)[Len(Species(colors))][2])

\* styles.py:104-107
DefaultColor(obj) ==
    IF DictHas(obj.colors, "default")
    THEN Some(DictGet(obj.colors, "default"))
    ELSE None

\* styles.py:99-102
Sel(selection) == IF selection # None THEN selection[1] ELSE EmptyDict

Built(obj) ==
    StyleDictLoop(obj, DefaultColor(obj), 1, obj.style_specs, EmptyDict)

\* AtomStyle.apply(model, selection): the style object afterwards
ApplyObj(obj) ==
    [obj EXCEPT !.style_specs =
        SpeciesSpecs(obj.colors, Built(obj).specs, Built(obj).ref)]

\* AtomStyle.apply(model, selection): the setStyle(selector, style) calls
\* made on model, in order
ApplyCalls(obj, selection) ==
    << <<Sel(selection), StyleDictValue(Built(obj).ref, Built(obj).specs)>> >>
    \o SpeciesCalls(obj.colors, Built(obj).specs, Built(obj).ref,
                    Sel(selection))

-----------------------------------------------------------------------------
(* models.py: the registry and class Model.  Operations take the program   *)
(* state w (a record of the view variables) and return the state they      *)
(* leave; w.err is the exception raised, after which nothing more runs.    *)
(* A py3Dmol view is modelled by what the program hands it: the models     *)
(* added with addModelsAsFrames (each with the frame last requested by     *)
(* setFrame) and the unit cells added with addUnitCell.  A model handle    *)
(* (view.getModel(-1)) is <<view id, position of the model in the view>>.  *)

\* models.py:23-31: seven names, each bound to an object of its own
AtomStyleObjects ==
    [name \in {"bs", "ballsticks", "s", "sticks", "vdw", "vanderwaals",
               "default"} |->
        CASE name \in {"bs", "ballsticks", "default"} ->
                BallAndStickStyle(EmptyDict)
          [] name \in {"s", "sticks"} -> StickStyle(EmptyDict)
          [] name \in {"vdw", "vanderwaals"} -> VanDerWaalsStyle(EmptyDict)]

\* Nothing assigns the styles or the colors of a registry object after the
\* import, so the state holds each object's style_specs only.
AtomStylesInit ==
    [name \in DOMAIN AtomStyleObjects |-> AtomStyleObjects[name].style_specs]

\* atom_styles[name], the object, in state w
AtomStyleAt(w, name) ==
    [AtomStyleObjects[name] EXCEPT !.style_specs = w.atom_styles[name]]

Min(a, b) == IF a < b THEN a ELSE b
Max(a, b) == IF a > b THEN a ELSE b

Raise(w, e) == [w EXCEPT !.err = e]

\* Python list indexing: the position (from 1) of index i in a list of
\* length n, for -n <= i <= n-1
ListPos(i, n) == IF i < 0 THEN n + i + 1 ELSE i + 1

ListIndexOk(i, n) == -n <= i /\ i <= n - 1

\* a clamp of the upper end only
ClampNoLower(i, n) == Min(i, n - 1)

\* max(-n, min(i, n - 1)), models.py:122 and viewer.py:55-56
Clamp(i, n) == Max(-n, Min(i, n - 1))

\* models.py:125-126
Resolve(i, n) == IF i < 0 THEN n + i ELSE i

\* handle.setFrame(i)
SetFrame(w, handle, i) ==
    [w EXCEPT !.views[handle[1]].models[handle[2]].frame = Some(i)]

\* models.py:181-182 and 192-193: for sel, style in self.representations:
\* style.apply(self._model, selection=sel)
RECURSIVE ApplyRepresentations(_, _, _)
ApplyRepresentations(w, reps, k) ==
    IF k > Len(reps) THEN w
    ELSE ApplyRepresentations(
            [w EXCEPT !.atom_styles[reps[k][2]] =
                          ApplyObj(AtomStyleAt(w, reps[k][2])).style_specs],
            reps, k + 1)

\* Model.add_representation(style, selection) on the fields m of a model
AddRepresentation(m, st, selection) ==
    LET sel == DictUpdate(<< <<"model", -1>> >>,
                          IF selection # None THEN selection[1]
                          ELSE EmptyDict)
    IN [m EXCEPT !.representations = Append(@, <<sel, st>>)]

\* Model.__init__(frames, show_cell, style): frames is the number of frames
ModelInit(frames, show_cell, st) ==
    AddRepresentation(
        [frames |-> frames, active_frame |-> -1, representations |-> <<>>,
         show_cell |-> show_cell, model_id |-> None, view |-> None,
         model |-> None],
        st, None)

\* Model.add_representation
M_add_representation(w, o, st, selection) ==
    [w EXCEPT !.models[o] = AddRepresentation(@, st, selection)]

\* Model.active_frame setter
M_set_active_frame(w, o, frame) ==
    LET n == w.models[o].frames
        i == Clamp(frame, n)
        w1 == [w EXCEPT !.models[o].active_frame = i]
    IN IF w.models[o].model # None
       THEN SetFrame(w1, w.models[o].model[1], Resolve(i, n))
       ELSE w1

\* models.py:181-182 and 192-193 for the Model o
ApplyAll(w, o) == ApplyRepresentations(w, w.models[o].representations, 1)

\* models.py:183 and 194: self._model.setFrame(self.active_frame)
SetActiveFrame(w, o) ==
    SetFrame(w, w.models[o].model[1], w.models[o].active_frame)

\* models.py:187-194, Model.update
M_update(w, o) ==
    IF w.models[o].model = None THEN Raise(w, "ValueError")
    ELSE SetActiveFrame(ApplyAll(w, o), o)

\* a list assignment that would clamp its index instead of raising
SetItemClamped(w, o, r, entry) ==
    LET n == Len(w.models[o].representations)
    IN [w EXCEPT !.models[o].representations[ListPos(Clamp(r, n), n)] =
                     entry]

\* models.py:166, self.representations[representation] = (sel, style)
SetItem(w, o, r, entry) ==
    LET n == Len(w.models[o].representations)
    IN IF ListIndexOk(r, n)
       THEN [w EXCEPT !.models[o].representations[ListPos(r, n)] = entry]
       ELSE Raise(w, "IndexError")

\* models.py:167, self.update(), reached unless the assignment raised
UpdateAfter(w, o) == IF w.err # "ok" THEN w ELSE M_update(w, o)

\* Model.update_representation(style, selection, representation)
M_update_representation(w, o, st, selection, r) ==
    LET sel0 == IF w.models[o].model_id # None
                THEN << <<"model", w.models[o].model_id[1]>> >>
                ELSE << <<"model", -1>> >>
        sel == DictUpdate(sel0, IF selection # None THEN selection[1]
                                ELSE EmptyDict)
    IN UpdateAfter(SetItem(w, o, r, <<sel, st>>), o)

\* A binding that keeps the first view a Model was attached to; add_to_view
\* does not behave like this, Bind below is what it does.
BindOnce(w, o, v, model_id) ==
    IF w.models[o].model # None THEN w
    ELSE LET w1 == [w EXCEPT !.models[o].model_id = Some(model_id),
                             !.models[o].view = Some(v),
                             !.views[v].models =
                                 Append(@, [obj |-> o, frame |-> None])]
         IN [w1 EXCEPT !.models[o].model =
                           Some(<<v, Len(w1.views[v].models)>>)]

\* models.py:176-180: the binding made by add_to_view
Bind(w, o, v, model_id) ==
    LET w1 == [w EXCEPT !.models[o].model_id = Some(model_id),
                        !.models[o].view = Some(v),
                        !.views[v].models =
                            Append(@, [obj |-> o, frame |-> None])]
    IN [w1 EXCEPT !.models[o].model = Some(<<v, Len(w1.views[v].models)>>)]

\* models.py:184-185
AddUnitCell(w, o, v, model_id) ==
    IF w.models[o].show_cell
    THEN [w EXCEPT !.views[v].cells = Append(@, model_id)]
    ELSE w

\* Model.add_to_view(view, model_id)
M_add_to_view(w, o, v, model_id) ==
    AddUnitCell(SetActiveFrame(ApplyAll(Bind(w, o, v, model_id), o), o),
                o, v, model_id)

-----------------------------------------------------------------------------
(* viewer.py: class Viewer.  zoomTo, setHoverable, show and update of the  *)
(* py3Dmol view change nothing the program holds and are left out.         *)

\* Viewer.__init__(model): model is None or a Model object
ViewerInit(model) ==
    IF model # None
    THEN [v_models |-> <<model[1]>>, active_model |-> Some(0)]
    ELSE [v_models |-> <<>>, active_model |-> None]

\* Viewer.active_model setter
V_set_active_model(w, m) ==
    IF Len(w.v_models) = 0 THEN [w EXCEPT !.active_model = None]
    ELSE [w EXCEPT !.active_model = Some(Clamp(m, Len(w.v_models)))]

\* Viewer.add_model
V_add_model(w, o) == [w EXCEPT !.v_models = Append(@, o)]

\* viewer.py:102, self.view = py3Dmol.view(...): a new view each time
NewView(w) ==
    [w EXCEPT !.views = Append(@, [models |-> <<>>, cells |-> <<>>]),
              !.view = Some(Len(w.views) + 1)]

\* viewer.py:103-104: for i, m in enumerate(self.models): m.add_to_view(view, i)
RECURSIVE AttachAll(_, _)
AttachAll(w, k) ==
    IF k > Len(w.v_models) \/ w.err # "ok" THEN w
    ELSE AttachAll(M_add_to_view(w, w.v_models[k], w.view[1],
                                 EnumerateIndex(k)), k + 1)

\* viewer.py:102-107, Viewer.show() without keyword arguments
V_show(w) == AttachAll(NewView(w), 1)

\* viewer.py:120-121: for m in self.models: m.update()
RECURSIVE UpdateAll(_, _)
UpdateAll(w, k) ==
    IF k > Len(w.v_models) \/ w.err # "ok" THEN w
    ELSE UpdateAll(M_update(w, w.v_models[k]), k + 1)

\* self.models[self.active_model]: the object, or the exception of the
\* subscript (None is no index; an index set by the setter is in range)
ActiveModel(w) ==
    IF w.active_model = None THEN [err |-> "TypeError", obj |-> 0]
    ELSE IF ~ListIndexOk(w.active_model[1], Len(w.v_models))
         THEN [err |-> "IndexError", obj |-> 0]
         ELSE [err |-> "ok",
               obj |-> w.v_models[ListPos(w.active_model[1],
                                          Len(w.v_models))]]

\* viewer.py:112-113
UpdateView(w) == IF w.view = None THEN V_show(w) ELSE w

\* viewer.py:114-115
UpdateModel(w, model) ==
    IF w.err = "ok" /\ model # None
    THEN V_set_active_model(w, model[1]) ELSE w

\* viewer.py:116-117
UpdateFrame(w, frame) ==
    IF w.err = "ok" /\ frame # None
    THEN IF ActiveModel(w).err # "ok"
         THEN Raise(w, ActiveModel(w).err)
         ELSE M_set_active_frame(w, ActiveModel(w).obj, frame[1])
    ELSE w

\* viewer.py:118-119
UpdateStyle(w, st) ==
    IF w.err = "ok" /\ st # None
    THEN IF ActiveModel(w).err # "ok"
         THEN Raise(w, ActiveModel(w).err)
         ELSE M_update_representation(w, ActiveModel(w).obj, st[1], None, -1)
    ELSE w

\* Viewer.update(model, frame, style): each argument None or a value
V_update(w, model, frame, st) ==
    UpdateAll(UpdateStyle(UpdateFrame(UpdateModel(UpdateView(w), model),
                                      frame), st), 1)

\* viewer.py:108-109: update(**kwargs) follows when kwargs is not empty
UpdateKwargs(w, model, frame, st) ==
    IF w.err = "ok" /\ (model # None \/ frame # None \/ st # None)
    THEN V_update(w, model, frame, st)
    ELSE w

\* Viewer.show(**kwargs)
V_show_kwargs(w, model, frame, st) == UpdateKwargs(V_show(w), model, frame, st)

\* Viewer.num_frames (a read): the exception it raises, if any
V_num_frames(w) == Raise(w, ActiveModel(w).err)

-----------------------------------------------------------------------------
(* Models and a viewer: MaxModels Model objects of up to MaxFrames frames  *)
(* and one Viewer, constructed with or without a model, driven by any      *)
(* sequence of the public operations.                                      *)

MaxModels == 2
MaxFrames == 2
MaxReps == 2
MaxHeld == 2
MaxViews == 2
MaxEntries == 2
MaxAttach == 1

ModelObjs == 1..MaxModels
TheModel == CHOOSE o \in ModelObjs : \A p \in ModelObjs : o <= p

\* integer arguments: every index of a list of up to n elements, and one
\* beyond at either end
IdxArgs(n) == (-n - 1)..n

\* style names given to add_representation and to update_representation
AddStyles == {"sticks"}
UpdateStyles == {"vdw"}

Cur ==
    [atom_styles |-> atom_styles, models |-> models, v_models |-> v_models,
     active_model |-> active_model, view |-> view, views |-> views,
     err |-> "ok"]

Commit(w, call) ==
    /\ atom_styles' = w.atom_styles
    /\ models' = w.models
    /\ v_models' = w.v_models
    /\ active_model' = w.active_model
    /\ view' = w.view
    /\ views' = w.views
    /\ err' = w.err
    /\ last_call' = call
    /\ UNCHANGED pdbVars
    /\ UNCHANGED styleVars

\* the parts of the state an operation sequence does not use stay as built
PdbIdle ==
    /\ pdb_args = [coords |-> <<>>, types |-> <<>>,
                   cell |-> <<1000, 1000, 1000, 9000, 9000, 9000>>,
                   model |-> 1]
    /\ pdb_out = None
    /\ pdb_err = "not called"

StyleIdle ==
    /\ style = StickStyle(<< <<"colors", EmptyDict>> >>)
    /\ last_sel = None /\ calls = <<>>
    /\ applies = 0

ViewIdle ==
    /\ atom_styles = AtomStylesInit
    /\ models = [o \in ModelObjs |-> ModelInit(1, TRUE, "default")]
    /\ v_models = <<>> /\ active_model = None /\ view = None
    /\ views = <<>> /\ err = "ok" /\ last_call = <<"__init__", 0, 0, "">>

ViewInit ==
    /\ PdbIdle
    /\ StyleIdle
    /\ atom_styles = AtomStylesInit
    /\ models = [o \in ModelObjs |-> ModelInit(MaxFrames, TRUE, "default")]
    /\ \E model \in {None, Some(1)} :
          /\ v_models = ViewerInit(model).v_models
          /\ active_model = ViewerInit(model).active_model
    /\ view = None
    /\ views = <<>>
    /\ err = "ok"
    /\ last_call = <<"__init__", 0, 0, "">>

ModelSetActiveFrame(o, frame) ==
    Commit(M_set_active_frame(Cur, o, frame),
           <<"Model.active_frame", o, frame, "">>)

ModelAddRepresentation(o, st) ==
    /\ Len(models[o].representations) < MaxReps
    /\ Commit(M_add_representation(Cur, o, st, None),
              <<"Model.add_representation", o, 0, st>>)

ModelUpdateRepresentation(o, st, r) ==
    Commit(M_update_representation(Cur, o, st, None, r),
           <<"Model.update_representation", o, r, st>>)

ModelAddToView(o, v, model_id) ==
    /\ Len(views[v].models) < MaxEntries
    /\ Commit(M_add_to_view(Cur, o, v, model_id),
              <<"Model.add_to_view", o, model_id, "">>)

ModelUpdate(o) ==
    Commit(M_update(Cur, o), <<"Model.update", o, 0, "">>)

ViewerSetActiveModel(m) ==
    Commit(V_set_active_model(Cur, m), <<"Viewer.active_model", 0, m, "">>)

ViewerAddModel(o) ==
    /\ Len(v_models) < MaxHeld
    /\ Commit(V_add_model(Cur, o), <<"Viewer.add_model", o, 0, "">>)

ViewerShow(model, frame, st) ==
    /\ Len(views) < MaxViews
    /\ Commit(V_show_kwargs(Cur, model, frame, st),
              <<"Viewer.show", 0, 0, "">>)

ViewerUpdate(model, frame, st) ==
    Commit(V_update(Cur, model, frame, st), <<"Viewer.update", 0, 0, "">>)

ViewerNumFrames ==
    Commit(V_num_frames(Cur), <<"Viewer.num_frames", 0, 0, "">>)

\* keyword arguments of Viewer.show and Viewer.update
OptModel == {None, Some(-1), Some(MaxHeld)}
OptFrame == {None, Some(0)}
OptStyle == {None} \cup {Some(st) : st \in UpdateStyles}

\* One Model used directly, with a view the caller has created
ModelNext ==
    \/ \E frame \in IdxArgs(MaxFrames) : ModelSetActiveFrame(TheModel, frame)
    \/ \E st \in AddStyles : ModelAddRepresentation(TheModel, st)
    \/ \E st \in UpdateStyles, r \in IdxArgs(MaxReps) :
          ModelUpdateRepresentation(TheModel, st, r)
    \/ Len(views[1].models) < MaxAttach /\ ModelAddToView(TheModel, 1, 0)
    \/ ModelUpdate(TheModel)

\* A Viewer and the models it holds, used through the Viewer
ViewNext ==
    \/ \E m \in IdxArgs(MaxHeld) : ViewerSetActiveModel(m)
    \/ \E o \in ModelObjs : ViewerAddModel(o)
    \/ \E model \in OptModel, frame \in OptFrame, st \in OptStyle :
          ViewerShow(model, frame, st)
    \/ \E model \in OptModel, frame \in OptFrame, st \in OptStyle :
          ViewerUpdate(model, frame, st)
    \/ ViewerNumFrames

\* Attaching only: the Viewer is shown, models are added to it, and a
\* model is also attached to the Viewer's view by a direct add_to_view
ShowNext ==
    \/ ViewerShow(None, None, None)
    \/ \E o \in ModelObjs : ViewerAddModel(o)
    \/ view # None /\ ModelAddToView(TheModel, view[1], 0)

-----------------------------------------------------------------------------
(* The formatter on its own: pdb() is called on coordinate and symbol      *)
(* lists of up to MaxAtoms entries, of equal or of different lengths.      *)

MaxAtoms == 3
MaxModelNo == 2

Symbols == {<<"H">>, <<"C", "l">>}

Coordinates == {<<0, 0, 0>>, <<1000, -1500, 12345>>}

Cells == {<<1000, 1000, 1000, 9000, 9000, 9000>>,
          <<10500, 2250, 3000, 9000, 12000, 6050>>}

SeqsUpTo(S, n) == UNION {[1..k -> S] : k \in 0..n}

PdbInputs ==
    [coords : SeqsUpTo(Coordinates, MaxAtoms),
     types : SeqsUpTo(Symbols, MaxAtoms),
     cell : Cells, model : 1..MaxModelNo]

\* the arguments are chosen; pdb() has not been called yet
PdbInit ==
    /\ StyleIdle
    /\ ViewIdle
    /\ pdb_args \in PdbInputs
    /\ pdb_out = None
    /\ pdb_err = "not called"

PdbCall ==
    /\ pdb_err = "not called"
    /\ LET r == pdb(pdb_args.coords, pdb_args.types, pdb_args.cell,
                    pdb_args.model)
       IN /\ pdb_out' = r.out
          /\ pdb_err' = r.err
    /\ UNCHANGED pdb_args
    /\ UNCHANGED styleVars
    /\ UNCHANGED viewVars

PdbNext == PdbCall

-----------------------------------------------------------------------------
(* The style table on its own: a style is constructed, primitive styles    *)
(* are appended, and it is applied to a render target.                     *)

MaxStyles == 3
MaxApplies == 2

ColorTables == {
    DEFAULT_COLORS,
    EmptyDict,
    << <<"default", "grey">> >>,
    << <<"H", "white">>, <<"O", "red">> >>,
    << <<"H", "white">>, <<"default", "grey">>, <<"O", "red">> >> }

KwargsSet == {EmptyDict} \cup { << <<"colors", t>> >> : t \in ColorTables }

PrimitiveStyles == {"line", "sphere", "stick"}

SpecsSet == {EmptyDict, << <<"radius", "0.2">> >>}

Selections ==
    {None, Some(EmptyDict), Some(<< <<"model", -1>> >>),
     Some(<< <<"model", 0>> >>)}

StyleInit ==
    /\ PdbIdle
    /\ ViewIdle
    /\ style \in {StickStyle(k) : k \in KwargsSet}
                 \cup {VanDerWaalsStyle(k) : k \in KwargsSet}
                 \cup {BallAndStickStyle(k) : k \in KwargsSet}
    /\ last_sel = None
    /\ calls = <<>>
    /\ applies = 0

StyleAddStyle(st, specs) ==
    /\ Len(style.styles) < MaxStyles
    /\ style' = add_style(style, st, specs)
    /\ UNCHANGED <<last_sel, calls, applies>>
    /\ UNCHANGED pdbVars
    /\ UNCHANGED viewVars

StyleApply(selection) ==
    /\ applies < MaxApplies
    /\ style' = ApplyObj(style)
    /\ calls' = ApplyCalls(style, selection)
    /\ last_sel' = selection
    /\ applies' = applies + 1
    /\ UNCHANGED pdbVars
    /\ UNCHANGED viewVars

StyleNext ==
    \/ \E st \in PrimitiveStyles, specs \in SpecsSet : StyleAddStyle(st, specs)
    \/ \E selection \in Selections : StyleApply(selection)

SpecStyle == StyleInit /\ [][StyleNext]_vars

SpecPdb == PdbInit /\ [][PdbNext]_vars

ModelInitOnly ==
    /\ PdbIdle
    /\ StyleIdle
    /\ atom_styles = AtomStylesInit
    /\ \E n \in 0..MaxFrames :
          models = [o \in ModelObjs |-> ModelInit(n, TRUE, "default")]
    /\ v_models = <<>> /\ active_model = None /\ view = None
    /\ views = <<[models |-> <<>>, cells |-> <<>>]>>
    /\ err = "ok" /\ last_call = <<"__init__", 0, 0, "">>

SpecModel == ModelInitOnly /\ [][ModelNext]_vars

Spec == ViewInit /\ [][ViewNext]_vars

SpecShow == ViewInit /\ [][ShowNext]_vars

-----------------------------------------------------------------------------
(* Properties of pdb(), under SpecPdb                                      *)

\* positions of the newlines of a string, and its lines without them
Newlines(str) == {i \in 1..Len(str) : str[i] = "\n"}

NthNewline(str, k) ==
    CHOOSE i \in Newlines(str) :
        Cardinality({j \in Newlines(str) : j < i}) = k - 1

Lines(str) ==
    [k \in 1..Cardinality(Newlines(str)) |->
        SubSeq(str, IF k = 1 THEN 1 ELSE NthNewline(str, k - 1) + 1,
               NthNewline(str, k) - 1)]

StartsWith(str, prefix) ==
    Len(str) >= Len(prefix) /\ SubSeq(str, 1, Len(prefix)) = prefix

DigitValue(c) == CHOOSE d \in 0..9 : DigitChars[d + 1] = c

RECURSIVE ParseInt(_)
ParseInt(str) ==
    IF str = <<>> THEN 0
    ELSE IF str[1] = " " THEN ParseInt(Tail(str))
         ELSE 10 * ParseInt(SubSeq(str, 1, Len(str) - 1))
              + DigitValue(str[Len(str)])

\* C8: for coordinate and symbol lists of equal length N, pdb() returns the
\* CRYST1 line, the MODEL line, exactly N ATOM records with the ids
\* 0, 1, ..., N-1 in input order, and then the single line ENDMOL.
C8_PdbRecords ==
    (pdb_err # "not called"
     /\ Len(pdb_args.coords) = Len(pdb_args.types))
    => /\ pdb_err = "ok"
       /\ pdb_out # None
       /\ LET out == pdb_out[1]
              n == Len(pdb_args.coords)
              ls == Lines(out)
          IN /\ out[Len(out)] = "\n"
             /\ Len(ls) = n + 3
             /\ StartsWith(ls[1], <<"C", "R", "Y", "S", "T", "1", " ">>)
             /\ StartsWith(ls[2], <<"M", "O", "D", "E", "L", " ">>)
             /\ \A k \in 1..n :
                   /\ StartsWith(ls[2 + k], <<"A", "T", "O", "M", " ">>)
                   /\ ParseInt(SubSeq(ls[2 + k], 6, 11)) = k - 1
                   /\ SubSeq(ls[2 + k], 15, 16)
                        = FormatS(pdb_args.types[k], 2)
             /\ ls[n + 3] = <<"E", "N", "D", "M", "O", "L">>

\* pdb() has returned for two atoms
C8_Witness ==
    /\ pdb_err = "ok"
    /\ Len(pdb_args.coords) = 2
    /\ Len(pdb_args.types) = 2
    /\ pdb_out # None

-----------------------------------------------------------------------------
(* Properties of AtomStyle.apply, under SpecStyle                          *)

NumSpecies(colors) ==
    Cardinality({i \in 1..Len(colors) : colors[i][1] # "default"})

SpeciesNames(colors) ==
    {colors[i][1] : i \in {j \in 1..Len(colors) : colors[j][1] # "default"}}

StyleNamesOf(style_dict) == {style_dict[k][1] : k \in 1..Len(style_dict)}

\* C9, as claimed: apply on a style of P primitive styles issues P style
\* calls, each followed by one override call per non-default element, so
\* P * (1 + E) setStyle calls.
C9_CallPerPrimitive ==
    [][applies' = applies + 1
       => Len(calls') = Len(style.styles) * (1 + NumSpecies(style.colors))
      ]_vars

\* C9, amended: apply issues one setStyle call for the selection whose style
\* argument holds all the primitive styles together, followed by one
\* override call per non-default element, each for that element and again
\* with all the primitive styles: 1 + E calls, whatever P is.
C9_OneCallAllPrimitives ==
    [][applies' = applies + 1
       => /\ Len(calls') = 1 + NumSpecies(style.colors)
          /\ calls'[1][1] = (IF last_sel' = None THEN <<>> ELSE last_sel'[1])
          /\ \A c \in 1..Len(calls') :
                StyleNamesOf(calls'[c][2])
                    = {style.styles[i] : i \in 1..Len(style.styles)}
          /\ {DictGet(calls'[c][1], "elem") : c \in 2..Len(calls')}
                = SpeciesNames(style.colors)
      ]_vars

\* a style of two primitive styles has been applied, with overrides
C9_Witness ==
    /\ applies > 0
    /\ style.styles = <<"sphere", "stick">>
    /\ Len(calls) = 1 + NumSpecies(style.colors)
    /\ NumSpecies(style.colors) >= 2

\* C10: apply leaves the style object (primitive styles, style_specs, color
\* table) as it was, and a repeated apply with the same selection issues
\* the same setStyle calls.
C10_ApplyLeavesStyle ==
    [][applies' = applies + 1
       => /\ style' = style
          /\ (applies > 0 /\ last_sel' = last_sel) => calls' = calls
      ]_vars

-----------------------------------------------------------------------------
(* Properties of Model, under SpecModel                                    *)

\* C1, as claimed: for every N >= 0 the stored active frame is in [-N, N-1]
C1_ActiveFrameInRange ==
    \A o \in ModelObjs :
        models[o].active_frame \in (-models[o].frames)..(models[o].frames - 1)

\* C1, amended: for N >= 1 the stored active frame is always in [-N, N-1];
\* for N = 0, where that range is empty, it is -1 after construction and 0
\* after any assignment; an assignment of i never raises and stores
\* max(-N, min(i, N-1)).
C1_ActiveFrameClamped ==
    \A o \in ModelObjs :
        LET n == models[o].frames
            a == models[o].active_frame
        IN /\ n >= 1 => (-n <= a /\ a <= n - 1)
           /\ n = 0 => a \in {-1, 0}
           /\ (last_call[1] = "Model.active_frame" /\ last_call[2] = o)
              => /\ err = "ok"
                 /\ a = (IF n = 0 THEN 0
                         ELSE IF last_call[3] > n - 1 THEN n - 1
                         ELSE IF last_call[3] < -n THEN -n
                         ELSE last_call[3])

\* an out-of-range index has been assigned, on either side
C1_Witness ==
    /\ last_call[1] = "Model.active_frame"
    /\ models[last_call[2]].frames = 2
    /\ last_call[3] < -2
    /\ models[last_call[2]].active_frame = -2

\* C2: the frame an attached model's render target was last asked to
\* display (setFrame) is the resolved active frame: a for a >= 0, N + a for
\* a < 0.
C2_SetFrameResolved ==
    \A o \in ModelObjs :
        (models[o].frames >= 1 /\ models[o].model # None)
        => LET h == models[o].model[1]
               n == models[o].frames
               a == models[o].active_frame
           IN views[h[1]].models[h[2]].frame
                = Some(IF a < 0 THEN n + a ELSE a)

\* C3, as claimed: update_representation never raises an out-of-range error;
\* r > R-1 replaces the last representation and r < -R the first.
C3_RepresentationClamped ==
    [][last_call'[1] = "Model.update_representation"
       => LET o == last_call'[2]
              r == last_call'[3]
              n == Len(models[o].representations)
          IN /\ err' # "IndexError"
             /\ r > n - 1 => models'[o].representations[n][2] = last_call'[4]
             /\ r < -n => models'[o].representations[1][2] = last_call'[4]
      ]_vars

\* C3, amended: representation indices follow Python list indexing without
\* clamping.  For -R <= r <= R-1 update_representation replaces entry r
\* (r < 0 counting from the end) and leaves the other entries and the
\* count as they were; for every other r it raises IndexError and changes
\* nothing.
C3_RepresentationListIndex ==
    [][last_call'[1] = "Model.update_representation"
       => LET o == last_call'[2]
              r == last_call'[3]
              old == models[o].representations
              new == models'[o].representations
              n == Len(old)
              pos == IF r < 0 THEN n + r + 1 ELSE r + 1
          IN IF -n <= r /\ r <= n - 1
             THEN /\ err' # "IndexError"
                  /\ Len(new) = n
                  /\ new[pos][2] = last_call'[4]
                  /\ \A k \in 1..n : k # pos => new[k] = old[k]
             ELSE /\ err' = "IndexError"
                  /\ models' = models
                  /\ views' = views
      ]_vars

\* update_representation has raised IndexError
C3_Witness ==
    /\ last_call[1] = "Model.update_representation"
    /\ last_call[3] > Len(models[last_call[2]].representations) - 1
    /\ err = "IndexError"

\* C6: update_representation with a valid index leaves the number of
\* representations unchanged, makes the entry the given style, and
\* completes normally, without a not-attached error on a model that was
\* never attached.
C6_UpdateRepresentationCompletes ==
    [][last_call'[1] = "Model.update_representation"
       => LET o == last_call'[2]
              r == last_call'[3]
              n == Len(models[o].representations)
          IN (-n <= r /\ r <= n - 1)
             => /\ Len(models'[o].representations) = n
                /\ models'[o].representations
                       [IF r < 0 THEN n + r + 1 ELSE r + 1][2] = last_call'[4]
                /\ err' = "ok"
      ]_vars

-----------------------------------------------------------------------------
(* Properties of Viewer, under Spec (C4, C5) and SpecShow (C7)             *)

\* C4: whenever the viewer holds N >= 1 models, the active-model index is an
\* integer in [-N, N-1].
C4_ActiveModelInRange ==
    Len(v_models) >= 1
    => /\ active_model # None
       /\ -Len(v_models) <= active_model[1]
       /\ active_model[1] <= Len(v_models) - 1

\* C5: Viewer.update completes without a not-attached error, and after it
\* every held model is attached, also a model added after show().
C5_UpdateAttachesAdded ==
    last_call[1] = "Viewer.update"
    => /\ err # "ValueError"
       /\ \A k \in 1..Len(v_models) : models[v_models[k]].model # None

\* C7, as claimed: once created, the render target is never replaced, and
\* once a model is attached its binding is never made again.
C7_FirstCallWins ==
    [][/\ view # None => view' = view
       /\ \A o \in ModelObjs :
             models[o].model # None => models'[o].model = models[o].model
      ]_vars

\* C7, amended: neither show nor add_to_view guards against repetition.
\* Every show(), the first or a later one, creates a new render target that
\* replaces the viewer's previous one and binds every held model to it,
\* attached before or not, adding the models' frames to the new target in
\* the order held.  Every add_to_view, on an attached model too, succeeds
\* and binds the model again: its frames are added to the view once more
\* and its id, view and handle are those of the latest call.
C7_ShowRebinds ==
    [][/\ last_call'[1] = "Viewer.show"
          => /\ view' = Some(Len(views) + 1)
             /\ Len(views') = Len(views) + 1
             /\ Len(views'[view'[1]].models) = Len(v_models)
             /\ \A k \in 1..Len(v_models) :
                   /\ views'[view'[1]].models[k].obj = v_models[k]
                   /\ models'[v_models[k]].view = view'
                   /\ models'[v_models[k]].model # None
                   /\ models'[v_models[k]].model[1][1] = view'[1]
       /\ last_call'[1] = "Model.add_to_view"
          => LET o == last_call'[2]
                 v == view[1]
             IN /\ err' = "ok"
                /\ models'[o].model_id = Some(last_call'[3])
                /\ models'[o].view = Some(v)
                /\ models'[o].model
                     = Some(<<v, Len(views[v].models) + 1>>)
                /\ Len(views'[v].models) = Len(views[v].models) + 1
                /\ views'[v].models[Len(views'[v].models)].obj = o
      ]_vars

\* a second show() has rebound a model that the first one attached
C7_Witness ==
    /\ last_call[1] = "Viewer.show"
    /\ Len(views) = 2
    /\ Len(views[1].models) >= 1
    /\ Len(v_models) >= 1
    /\ models[v_models[1]].view = Some(2)

====
